---- MODULE Spec2Model ----
(***************************************************************************)
(* Biometrics-Attendance: the time-aggregation engine                      *)
(* (backend/services/time_calculator.py), the upload handler that stores   *)
(* its results (backend/routers/upload.py), the policy settings            *)
(* (backend/routers/settings.py, backend/config.py) and the per-day        *)
(* status colour of the individual report                                  *)
(* (backend/services/report_generator.py).                                 *)
(*                                                                         *)
(* Representation.                                                         *)
(*   datetime.time   seconds since midnight (comparison of time objects is *)
(*                   the comparison of these numbers); None is NoTime.     *)
(*   datetime.date   the proleptic ordinal date.toordinal().               *)
(*   'HH:MM' strings the tuple <<hour, minute>>; None is NoStr.            *)
(*   'Xh Ym' strings the tuple <<X, Y>>; None is NoStr.                    *)
(*   float percent   the exact rational num/den, kept as the pair          *)
(*                   [num, den]; round(x, 2) is kept in hundredths.        *)
(*   DB tables       sequences of rows in insertion (id) order.            *)
(***************************************************************************)
EXTENDS Integers, Sequences, FiniteSets, TLC

VARIABLES
    app_settings,   \* app_settings table: key -> stored value, NoValue when no row
    employees,      \* employees table
    logs,           \* attendance_logs table
    daily,          \* daily_attendance table
    weekly,         \* weekly_summary table
    day_records,    \* argument of _calculate_day_summary
    day_summary,    \* its result
    in_times,       \* arguments of _calculate_from_pairs / _create_pairs
    out_times,
    pair_total,     \* result of _calculate_from_pairs
    pairs,          \* result of _create_pairs
    week_input,     \* argument daily_summaries of calculate_weekly_summary
    week_window,    \* arguments (week_start, week_end)
    weekly_out,     \* its result
    percentage,     \* argument of the three status-colour computations
    colors,         \* their results
    all_dates,      \* argument dates of get_all_weeks
    date_bounds,    \* get_week_bounds of each of them, in their order
    all_weeks,      \* result of get_all_weeks
    upload_file,    \* the file of the last POST /upload/ (SpecApi)
    response,       \* the last request answered and its HTTP status (SpecApi)
    pc              \* "input" before the function under study ran, "done" after

vars == <<app_settings, employees, logs, daily, weekly, day_records,
          day_summary, in_times, out_times, pair_total, pairs, week_input,
          week_window, weekly_out, percentage, colors, all_dates,
          date_bounds, all_weeks, upload_file, response, pc>>

----------------------------------------------------------------------------
(* Values *)

\* None where a datetime.time or an int is expected
NoTime == 0 - 1
NoValue == 0 - 1
\* None where a string is expected
NoStr == <<>>

HMS(h, m, s) == h * 3600 + m * 60 + s
Hour(t) == t \div 3600
Minute(t) == (t % 3600) \div 60

\* time.strftime('%H:%M'): seconds are dropped
strftime_HM(t) == <<Hour(t), Minute(t)>>

RECURSIVE SeqSum(_)
SeqSum(s) == IF s = <<>> THEN 0 ELSE Head(s) + SeqSum(Tail(s))

SeqToSet(s) == {s[i] : i \in 1..Len(s)}

\* the sequences over S of length at most n
SeqsUpTo(S, n) == UNION {[1..k -> S] : k \in 0..n}

\* the permutations of a sequence (as sequences)
PermutationsOf(s) ==
    {[i \in 1..Len(s) |-> s[p[i]]] : p \in Permutations(1..Len(s))}

----------------------------------------------------------------------------
(* TimeCalculator: shared time utilities *)

\* time_calculator.py:109-113
time_to_minutes(t) == IF t = NoTime THEN 0 ELSE Hour(t) * 60 + Minute(t)

\* time_calculator.py:266-270 and the f-string of line 174
format_minutes(minutes) == <<minutes \div 60, minutes % 60>>

RECURSIVE InsertSorted(_, _)
InsertSorted(x, s) ==
    IF s = <<>> THEN <<x>>
    ELSE IF x < Head(s) THEN <<x>> \o s
    ELSE <<Head(s)>> \o InsertSorted(x, Tail(s))

\* the order in which the pairing visits a list: the input order
UnsortedMutant(s) == s

\* sorted(times): ascending, equal values keep their input order
RECURSIVE sorted(_)
sorted(s) ==
    IF s = <<>> THEN <<>>
    ELSE InsertSorted(s[Len(s)], sorted(SubSeq(s, 1, Len(s) - 1)))

\* the first element, whatever the others are
FirstElementMutant(s) == s[1]

RECURSIVE SeqMin(_)
SeqMin(s) ==
    IF Len(s) = 1 THEN s[1]
    ELSE LET m == SeqMin(Tail(s)) IN IF s[1] <= m THEN s[1] ELSE m

RECURSIVE SeqMax(_)
SeqMax(s) ==
    IF Len(s) = 1 THEN s[1]
    ELSE LET m == SeqMax(Tail(s)) IN IF s[1] >= m THEN s[1] ELSE m

----------------------------------------------------------------------------
(* TimeCalculator: IN/OUT pairing *)

\* time_calculator.py:138-144: the test _calculate_from_pairs applies to a
\* candidate OUT before it binds it
CalcAccepts(in_time, out_time) ==
    /\ out_time > in_time
    /\ time_to_minutes(out_time) - time_to_minutes(in_time) > 0

\* a test that lets every candidate OUT through
AnyOutMutant(in_time, out_time) == TRUE

\* time_calculator.py:171: the test _create_pairs applies to a candidate OUT
PairAccepts(in_time, out_time) == out_time > in_time

\* time_calculator.py:135-147: the inner scan of _calculate_from_pairs from
\* index i; the index of the OUT it binds, 0 when the scan ends without one
RECURSIVE CalcScan(_, _, _, _)
CalcScan(in_time, sorted_outs, used_outs, i) ==
    IF i > Len(sorted_outs) THEN 0
    ELSE IF i \in used_outs THEN CalcScan(in_time, sorted_outs, used_outs, i + 1)
    ELSE IF CalcAccepts(in_time, sorted_outs[i]) THEN i
    ELSE CalcScan(in_time, sorted_outs, used_outs, i + 1)

\* time_calculator.py:133-149: the outer loop of _calculate_from_pairs from
\* the k-th IN, with the OUT indices used and the total so far
RECURSIVE CalcLoop(_, _, _, _, _)
CalcLoop(sorted_ins, sorted_outs, k, used_outs, total_minutes) ==
    IF k > Len(sorted_ins) THEN total_minutes
    ELSE LET i == CalcScan(sorted_ins[k], sorted_outs, used_outs, 1) IN
         IF i = 0
         THEN CalcLoop(sorted_ins, sorted_outs, k + 1, used_outs, total_minutes)
         ELSE CalcLoop(sorted_ins, sorted_outs, k + 1, used_outs \cup {i},
                       total_minutes + time_to_minutes(sorted_outs[i])
                                     - time_to_minutes(sorted_ins[k]))

\* time_calculator.py:115-149
calculate_from_pairs(ins, outs) ==
    IF ins = <<>> \/ outs = <<>> THEN 0
    ELSE CalcLoop(sorted(ins), sorted(outs), 1, {}, 0)

\* a scan that binds the latest free OUT after the IN instead of the earliest
LatestOutMutant(in_time, sorted_outs, used_outs, i) ==
    LET free == {j \in i..Len(sorted_outs) :
                    j \notin used_outs /\ sorted_outs[j] > in_time}
    IN IF free = {} THEN 0 ELSE CHOOSE j \in free : \A j2 \in free : j2 <= j

\* time_calculator.py:168-176: the inner scan of _create_pairs
RECURSIVE PairScan(_, _, _, _)
PairScan(in_time, sorted_outs, used_outs, i) ==
    IF i > Len(sorted_outs) THEN 0
    ELSE IF i \in used_outs THEN PairScan(in_time, sorted_outs, used_outs, i + 1)
    ELSE IF PairAccepts(in_time, sorted_outs[i]) THEN i
    ELSE PairScan(in_time, sorted_outs, used_outs, i + 1)

\* time_calculator.py:160-180: the outer loop of _create_pairs
RECURSIVE PairLoop(_, _, _, _)
PairLoop(sorted_ins, sorted_outs, k, used_outs) ==
    IF k > Len(sorted_ins) THEN <<>>
    ELSE LET i == PairScan(sorted_ins[k], sorted_outs, used_outs, 1)
             pair == IF i = 0
                     THEN [in |-> strftime_HM(sorted_ins[k]), out |-> NoStr,
                           duration |-> NoStr]
                     ELSE [in |-> strftime_HM(sorted_ins[k]),
                           out |-> strftime_HM(sorted_outs[i]),
                           duration |-> format_minutes(
                               time_to_minutes(sorted_outs[i])
                               - time_to_minutes(sorted_ins[k]))]
         IN <<pair>> \o PairLoop(sorted_ins, sorted_outs, k + 1,
                                 IF i = 0 THEN used_outs ELSE used_outs \cup {i})

\* time_calculator.py:151-180
create_pairs(ins, outs) == PairLoop(sorted(ins), sorted(outs), 1, {})

----------------------------------------------------------------------------
(* TimeCalculator: the Daily Aggregator *)

\* the device total of the last record that carries one
LastTotalMutant(records) ==
    LET idx == {i \in 1..Len(records) : records[i].total_time # NoTime}
    IN IF idx = {} THEN NoTime
       ELSE records[CHOOSE i \in idx : \A j \in idx : j <= i].total_time

\* time_calculator.py:65-74: total_from_device after the loop over the day's
\* records. A datetime.time is always true in a condition (Python >= 3.5),
\* so only None is skipped and the first total met is kept.
RECURSIVE total_from_device(_)
total_from_device(records) ==
    IF records = <<>> THEN NoTime
    ELSE IF Head(records).total_time # NoTime THEN Head(records).total_time
    ELSE total_from_device(Tail(records))

\* time_calculator.py:63-72: the IN list and the OUT list of the day, in
\* record order
InTimesOf(records) ==
    LET withIn == SelectSeq(records, LAMBDA r : r.in_time # NoTime)
    IN [i \in 1..Len(withIn) |-> withIn[i].in_time]

OutTimesOf(records) ==
    LET withOut == SelectSeq(records, LAMBDA r : r.out_time # NoTime)
    IN [i \in 1..Len(withOut) |-> withOut[i].out_time]

\* a status rule that makes every day with counted minutes PRESENT
PresentWhenAnyMinutesMutant(total_minutes) ==
    IF total_minutes > 0 THEN "PRESENT" ELSE "ABSENT"

\* time_calculator.py:85-91: the status rule, with its fixed 6 hours
DayStatus(total_minutes) ==
    IF total_minutes >= 360 THEN "PRESENT" ELSE "ABSENT"

\* time_calculator.py:54-107 (remark, which no table stores, is left out)
calculate_day_summary(records) ==
    LET ins == InTimesOf(records)
        outs == OutTimesOf(records)
        device == total_from_device(records)
        total_minutes == IF device # NoTime THEN time_to_minutes(device)
                         ELSE calculate_from_pairs(ins, outs)
    IN [total_office_minutes |-> total_minutes,
        status |-> DayStatus(total_minutes),
        first_in |-> IF ins # <<>> THEN SeqMin(ins) ELSE NoTime,
        last_out |-> IF outs # <<>> THEN SeqMax(outs) ELSE NoTime,
        \* json.dumps(pairs) if pairs else None: None is the empty sequence
        in_out_pairs |-> create_pairs(ins, outs)]

----------------------------------------------------------------------------
(* Policy settings *)

\* models/settings.py:20-25: the keys of the app_settings table
SettingKeys == {"expected_hours_per_day", "wfo_days_per_week",
                "wfh_days_per_week", "threshold_red", "threshold_amber",
                "min_hours_for_present"}

\* config.py:15-26: the defaults of Settings
EXPECTED_HOURS_PER_DAY == 8
WFO_DAYS_PER_WEEK == 3
THRESHOLD_RED == 70
THRESHOLD_AMBER == 90
\* routers/settings.py:139: the default "6" of min_hours_for_present
MIN_HOURS_DEFAULT == 6

\* the app_settings table with no row
NoSettings == [k \in SettingKeys |-> NoValue]

\* routers/settings.py:27-30 (values are stored as str(int) and read back
\* with int(), which gives the same integer)
get_setting_value(db_settings, key, default) ==
    IF db_settings[key] # NoValue THEN db_settings[key] ELSE default

\* routers/settings.py:119-148
get_dynamic_settings(db_settings) ==
    [expected_hours_per_day |->
         get_setting_value(db_settings, "expected_hours_per_day", EXPECTED_HOURS_PER_DAY),
     wfo_days_per_week |->
         get_setting_value(db_settings, "wfo_days_per_week", WFO_DAYS_PER_WEEK),
     threshold_red |->
         get_setting_value(db_settings, "threshold_red", THRESHOLD_RED),
     threshold_amber |->
         get_setting_value(db_settings, "threshold_amber", THRESHOLD_AMBER),
     min_hours_for_present |->
         get_setting_value(db_settings, "min_hours_for_present", MIN_HOURS_DEFAULT)]

\* routers/settings.py:86-101: the table after update_settings(settings_data)
update_settings(settings_data) == [k \in SettingKeys |-> settings_data[k]]

\* the SettingsUpdate bodies the model sends: the defaults of the request
\* model (routers/settings.py:17-24) and one custom policy
SettingsPayloads ==
    {[expected_hours_per_day |-> 8, wfo_days_per_week |-> 2,
      wfh_days_per_week |-> 3, threshold_red |-> 70, threshold_amber |-> 90,
      min_hours_for_present |-> 6],
     [expected_hours_per_day |-> 9, wfo_days_per_week |-> 3,
      wfh_days_per_week |-> 2, threshold_red |-> 60, threshold_amber |-> 80,
      min_hours_for_present |-> 4]}

SettingsStates == {NoSettings} \cup {update_settings(p) : p \in SettingsPayloads}

----------------------------------------------------------------------------
(* Status colours *)

\* A float percentage is kept as the exact fraction num/den (den > 0).  On
\* the totals and expected minutes of this model the float (total /
\* expected) * 100 compares with a whole threshold as the fraction does.
Percent(num, den) == [num |-> num, den |-> den]

\* time_calculator.py:240-247: TimeCalculator._get_status_color
TimeCalculator_get_status_color(p) ==
    IF p.num < 70 * p.den THEN "RED"
    ELSE IF p.num <= 90 * p.den THEN "AMBER"
    ELSE "GREEN"

\* config.py:39-54: get_status_color, on the Settings of config.py
config_get_status_color(p) ==
    IF p.num < THRESHOLD_RED * p.den THEN "RED"
    ELSE IF p.num <= THRESHOLD_AMBER * p.den THEN "AMBER"
    ELSE "GREEN"

\* report_generator.py:214-226: daily_compliance and daily_status_color of
\* one daily record in get_individual_report
daily_compliance(total_office_minutes, expected_daily_minutes) ==
    IF expected_daily_minutes > 0
    THEN Percent(total_office_minutes * 100, expected_daily_minutes)
    ELSE Percent(0, 1)

daily_status_color(p) ==
    IF p.num >= 90 * p.den THEN "GREEN"
    ELSE IF p.num >= 70 * p.den THEN "AMBER"
    ELSE "RED"

----------------------------------------------------------------------------
(* TimeCalculator: the Week Partitioner and the Weekly Aggregator *)

\* date(y, m, d).toordinal(): the proleptic Gregorian day number
IsLeap(y) == y % 4 = 0 /\ (y % 100 # 0 \/ y % 400 = 0)
DaysBeforeMonth(y, m) ==
    <<0, 31, 59, 90, 120, 151, 181, 212, 243, 273, 304, 334>>[m]
    + (IF m > 2 /\ IsLeap(y) THEN 1 ELSE 0)
toordinal(y, m, d) ==
    (y - 1) * 365 + (y - 1) \div 4 - (y - 1) \div 100 + (y - 1) \div 400
    + DaysBeforeMonth(y, m) + d

\* date.weekday(): Monday is 0 (ordinal 1, 0001-01-01, is a Monday)
weekday(d) == (d + 6) % 7

\* a week that runs from Sunday to Saturday
SundayFirstWeekMutant(d) == <<d - (d % 7), d - (d % 7) + 6>>

\* time_calculator.py:249-254
get_week_bounds(d) == <<d - weekday(d), d - weekday(d) + 6>>

\* time_calculator.py:256-264: the distinct windows, sorted (tuples sort by
\* their first component, the Monday)
RECURSIVE SortedWindows(_)
SortedWindows(ws) ==
    IF ws = {} THEN <<>>
    ELSE LET first == CHOOSE w \in ws : \A v \in ws : w[1] <= v[1]
         IN <<first>> \o SortedWindows(ws \ {first})

\* windows that start on the dates themselves
WindowsFromDatesMutant(dates) ==
    SortedWindows({<<dates[i], dates[i] + 6>> : i \in 1..Len(dates)})

\* the window of each date, in the order of the dates
WindowPerDateMutant(dates) ==
    [i \in 1..Len(dates) |-> get_week_bounds(dates[i])]

get_all_weeks(dates) ==
    SortedWindows({get_week_bounds(dates[i]) : i \in 1..Len(dates)})

\* round(min(x, 100), 2): a percentage capped at 100
CappedRoundMutant(p) ==
    LET scaled == p.num * 100
        q == scaled \div p.den
        r2 == 2 * (scaled % p.den)
        rounded == IF r2 < p.den THEN q
                   ELSE IF r2 > p.den THEN q + 1
                   ELSE IF q % 2 = 0 THEN q ELSE q + 1
    IN IF rounded > 10000 THEN 10000 ELSE rounded

\* round(x, 2) of the fraction num/den >= 0, in hundredths: to the nearest,
\* an exact half to the even neighbour
round2(p) ==
    LET scaled == p.num * 100
        q == scaled \div p.den
        r2 == 2 * (scaled % p.den)
    IN IF r2 < p.den THEN q
       ELSE IF r2 > p.den THEN q + 1
       ELSE IF q % 2 = 0 THEN q ELSE q + 1

\* TimeCalculator.__init__, time_calculator.py:18-22, as upload.py:111-114
\* calls it: the thresholds and the minimum hours are not passed
TimeCalculator(dynamic_settings) ==
    [expected_hours_per_day |-> dynamic_settings.expected_hours_per_day,
     wfo_days_per_week |-> dynamic_settings.wfo_days_per_week]

\* a window that leaves its last day out
HalfOpenWindowMutant(date_summaries, week_start, week_end) ==
    SelectSeq(date_summaries,
              LAMBDA e : week_start <= e.date /\ e.date < week_end)

\* time_calculator.py:208-212: the day summaries of one employee inside the
\* window (date_summaries is the sequence of [date, summary] entries)
InWindow(date_summaries, week_start, week_end) ==
    SelectSeq(date_summaries,
              LAMBDA e : week_start <= e.date /\ e.date <= week_end)

\* the weekly entry with expected minutes taken from the policy's office
\* days per week (expected_weekly_minutes, time_calculator.py:22)
FixedExpectedMutant(calculator, emp_code, date_summaries, week_start, week_end) ==
    LET inside == SelectSeq(date_summaries,
                      LAMBDA e : week_start <= e.date /\ e.date <= week_end)
        total_minutes ==
            SeqSum([i \in 1..Len(inside) |->
                        inside[i].summary.total_office_minutes])
        wfo_days ==
            Cardinality({i \in 1..Len(inside) :
                            inside[i].summary.status \in {"PRESENT", "PARTIAL"}})
        expected_minutes == calculator.wfo_days_per_week
                            * calculator.expected_hours_per_day * 60
        compliance == IF expected_minutes > 0
                      THEN Percent(total_minutes * 100, expected_minutes)
                      ELSE Percent(0, 1)
    IN [employee_code |-> emp_code,
        week_start |-> week_start,
        week_end |-> week_end,
        total_office_minutes |-> total_minutes,
        wfo_days |-> wfo_days,
        expected_minutes |-> expected_minutes,
        compliance_percentage |-> round2(compliance),
        status |-> TimeCalculator_get_status_color(compliance)]

\* time_calculator.py:205-236: the weekly entry of one employee
WeeklyEntry(calculator, emp_code, date_summaries, week_start, week_end) ==
    LET inside == InWindow(date_summaries, week_start, week_end)
        total_minutes ==
            SeqSum([i \in 1..Len(inside) |->
                        inside[i].summary.total_office_minutes])
        wfo_days ==
            Cardinality({i \in 1..Len(inside) :
                            inside[i].summary.status \in {"PRESENT", "PARTIAL"}})
        expected_minutes == wfo_days * calculator.expected_hours_per_day * 60
        compliance == IF expected_minutes > 0
                      THEN Percent(total_minutes * 100, expected_minutes)
                      ELSE Percent(0, 1)
    IN [employee_code |-> emp_code,
        week_start |-> week_start,
        week_end |-> week_end,
        total_office_minutes |-> total_minutes,
        wfo_days |-> wfo_days,
        expected_minutes |-> expected_minutes,
        compliance_percentage |-> round2(compliance),
        status |-> TimeCalculator_get_status_color(compliance)]

\* entries only for the employees with a daily summary inside the window
OnlyAttendingEmployeesMutant(calculator, daily_summaries, week_start, week_end, employee_requirements) ==
    LET attending ==
            SelectSeq(daily_summaries,
                      LAMBDA e : InWindow(e.dates, week_start, week_end) # <<>>)
    IN [i \in 1..Len(attending) |->
           WeeklyEntry(calculator, attending[i].code, attending[i].dates,
                       week_start, week_end)]

\* time_calculator.py:182-238: one entry per employee of daily_summaries, in
\* its order (daily_summaries is the sequence of [code, dates] entries;
\* employee_requirements is accepted and never read)
calculate_weekly_summary(calculator, daily_summaries, week_start, week_end, employee_requirements) ==
    [i \in 1..Len(daily_summaries) |->
        WeeklyEntry(calculator, daily_summaries[i].code,
                    daily_summaries[i].dates, week_start, week_end)]

----------------------------------------------------------------------------
(* The upload handler: grouping and the upserts into the tables *)

\* the distinct values of a sequence in the order of their first occurrence
\* (the key order of a dict filled in that order)
RECURSIVE DistinctInOrder(_)
DistinctInOrder(s) ==
    IF s = <<>> THEN <<>>
    ELSE LET r == DistinctInOrder(SubSeq(s, 1, Len(s) - 1))
         IN IF s[Len(s)] \in SeqToSet(r) THEN r ELSE Append(r, s[Len(s)])

\* a grouping by employee alone: every date gets all the employee's records
GroupByCodeMutant(records, code, date) ==
    SelectSeq(records, LAMBDA r : r.code = code)

\* time_calculator.py:35-40: employee_date_records[code][date], in input order
DayRecordsOf(records, code, date) ==
    SelectSeq(records, LAMBDA r : r.code = code /\ r.date = date)

\* a summary for every date of the file under every employee of the file,
\* the dates without a punch of that employee included
EveryDateForEveryCodeMutant(records) ==
    LET codes == DistinctInOrder([i \in 1..Len(records) |-> records[i].code])
        dates == DistinctInOrder([i \in 1..Len(records) |-> records[i].date])
    IN [c \in 1..Len(codes) |->
           [code |-> codes[c],
            dates |-> [d \in 1..Len(dates) |->
                [date |-> dates[d],
                 summary |-> calculate_day_summary(
                                 DayRecordsOf(records, codes[c], dates[d]))]]]]

\* time_calculator.py:24-52: the dict employee -> date -> summary as the
\* sequence of [code, dates] entries, dates the sequence of [date, summary]
calculate_daily_summary(records) ==
    LET codes == DistinctInOrder([i \in 1..Len(records) |-> records[i].code])
    IN [c \in 1..Len(codes) |->
           LET mine == SelectSeq(records, LAMBDA r : r.code = codes[c])
               dates == DistinctInOrder([i \in 1..Len(mine) |-> mine[i].date])
           IN [code |-> codes[c],
               dates |-> [d \in 1..Len(dates) |->
                   [date |-> dates[d],
                    summary |-> calculate_day_summary(
                                    DayRecordsOf(records, codes[c], dates[d]))]]]]

\* a lookup that never finds the row
NoExistingDailyMutant(table, emp_code, rec_date) == 0
NoExistingWeeklyMutant(table, emp_code, week_start) == 0

\* the table holding the file's records in place of the rows it had
ReplaceLogsMutant(table, records) == records

\* upload.py:88-105: one attendance_logs row per record, added after the
\* rows the table has (rows are kept as the records, without the fields no
\* summary depends on)
StoreLogs(table, records) == table \o records

\* upload.py:70-86 with get_unique_employees (attendance_parser.py:269-284):
\* one employees row per code of the file that has none, in the order the
\* codes first occur. The records of the model carry no name, so the row
\* gets the name f"Employee {code}", kept as <<"Employee", code>>, and the
\* name of an existing row is left alone.
RECURSIVE StoreEmployees(_, _)
StoreEmployees(table, codes) ==
    IF codes = <<>> THEN table
    ELSE LET existing == {i \in 1..Len(table) : table[i].code = Head(codes)}
         IN StoreEmployees(
                IF existing # {} THEN table
                ELSE Append(table, [code |-> Head(codes),
                                    name |-> <<"Employee", Head(codes)>>,
                                    department |-> NoStr]),
                Tail(codes))

\* upload.py:122-125: Query.first() on daily_attendance, as the index of
\* the first row of the key, 0 when there is none
ExistingDaily(table, emp_code, rec_date) ==
    LET rows == {i \in 1..Len(table) : /\ table[i].employee_code = emp_code
                                       /\ table[i].date = rec_date}
    IN IF rows = {} THEN 0 ELSE CHOOSE i \in rows : \A j \in rows : i <= j

\* upload.py:167-170: Query.first() on weekly_summary
ExistingWeekly(table, emp_code, week_start) ==
    LET rows == {i \in 1..Len(table) : /\ table[i].employee_code = emp_code
                                       /\ table[i].week_start = week_start}
    IN IF rows = {} THEN 0 ELSE CHOOSE i \in rows : \A j \in rows : i <= j

\* upload.py:121-148: the daily_attendance table after one summary is stored
UpsertDaily(table, emp_code, rec_date, summary) ==
    LET existing == ExistingDaily(table, emp_code, rec_date)
    IN IF existing # 0
       THEN [table EXCEPT ![existing] =
                [@ EXCEPT !.total_office_minutes = summary.total_office_minutes,
                          !.status = summary.status,
                          !.in_out_pairs = summary.in_out_pairs,
                          !.first_in = summary.first_in,
                          !.last_out = summary.last_out]]
       ELSE Append(table, [employee_code |-> emp_code, date |-> rec_date,
                           total_office_minutes |-> summary.total_office_minutes,
                           status |-> summary.status,
                           in_out_pairs |-> summary.in_out_pairs,
                           first_in |-> summary.first_in,
                           last_out |-> summary.last_out])

\* upload.py:120-148: the inner loop over the dates of one employee, from d
RECURSIVE StoreDates(_, _, _, _)
StoreDates(table, emp_code, date_summaries, d) ==
    IF d > Len(date_summaries) THEN table
    ELSE StoreDates(UpsertDaily(table, emp_code, date_summaries[d].date,
                                date_summaries[d].summary),
                    emp_code, date_summaries, d + 1)

\* upload.py:119-150: the outer loop over the employees, from c
RECURSIVE StoreDaily(_, _, _)
StoreDaily(table, daily_summaries, c) ==
    IF c > Len(daily_summaries) THEN table
    ELSE StoreDaily(StoreDates(table, daily_summaries[c].code,
                               daily_summaries[c].dates, 1),
                    daily_summaries, c + 1)

\* upload.py:167-194: the weekly_summary table after one entry is stored
UpsertWeekly(table, week_summary) ==
    LET existing == ExistingWeekly(table, week_summary.employee_code,
                                   week_summary.week_start)
    IN IF existing # 0
       THEN [table EXCEPT ![existing] =
                [@ EXCEPT !.total_office_minutes = week_summary.total_office_minutes,
                          !.wfo_days = week_summary.wfo_days,
                          !.expected_minutes = week_summary.expected_minutes,
                          !.compliance_percentage = week_summary.compliance_percentage,
                          !.status = week_summary.status]]
       ELSE Append(table, week_summary)

\* upload.py:166-194: the loop over the entries of one window, from k
RECURSIVE StoreWeekEntries(_, _, _)
StoreWeekEntries(table, weekly_data, k) ==
    IF k > Len(weekly_data) THEN table
    ELSE StoreWeekEntries(UpsertWeekly(table, weekly_data[k]), weekly_data, k + 1)

\* upload.py:161-196: the loop over the windows of the upload, from w
RECURSIVE StoreWeekly(_, _, _, _, _)
StoreWeekly(table, calculator, daily_summaries, weeks, w) ==
    IF w > Len(weeks) THEN table
    ELSE StoreWeekly(
             StoreWeekEntries(table,
                 calculate_weekly_summary(calculator, daily_summaries,
                                          weeks[w][1], weeks[w][2], <<>>), 1),
             calculator, daily_summaries, weeks, w + 1)

----------------------------------------------------------------------------
(* Idle values: what a specification leaves untouched *)

NoDaySummary ==
    [total_office_minutes |-> 0, status |-> "ABSENT", first_in |-> NoTime,
     last_out |-> NoTime, in_out_pairs |-> <<>>]

IdleDb ==
    /\ employees = <<>> /\ logs = <<>> /\ daily = <<>> /\ weekly = <<>>
IdleDay == day_records = <<>> /\ day_summary = NoDaySummary
IdlePair ==
    /\ in_times = <<>> /\ out_times = <<>> /\ pair_total = 0 /\ pairs = <<>>
IdleWeek == week_input = <<>> /\ week_window = <<0, 0>> /\ weekly_out = <<>>
IdleClassify ==
    /\ percentage = Percent(0, 1)
    /\ colors = [calculator |-> "RED", config |-> "RED", report |-> "RED"]

IdlePartition == all_dates = <<>> /\ date_bounds = <<>> /\ all_weeks = <<>>

\* no file received and no request answered
NoFile == [filename |-> NoStr, parses |-> FALSE, records |-> 0]
NoResponse == [op |-> "none", status |-> 0]
IdleRequest == upload_file = NoFile /\ response = NoResponse

dbVars == <<employees, logs, daily, weekly>>
requestVars == <<upload_file, response>>
dayVars == <<day_records, day_summary>>
pairVars == <<in_times, out_times, pair_total, pairs>>
weekVars == <<week_input, week_window, weekly_out>>
classifyVars == <<percentage, colors>>
partitionVars == <<all_dates, date_bounds, all_weeks>>

----------------------------------------------------------------------------
(* Spec: the tables under uploads and settings updates *)

\* the most rows of attendance_logs, over all uploads
MaxLogs == 3

\* Monday 2024-05-13 and Tuesday 2024-05-14 (one week), Monday 2024-05-20
\* (the next); E1 punches on all three, E2 in the second week only
DbKeys ==
    {<<"E1", toordinal(2024, 5, 13)>>, <<"E1", toordinal(2024, 5, 14)>>,
     <<"E1", toordinal(2024, 5, 20)>>, <<"E2", toordinal(2024, 5, 20)>>}
\* 09:00-17:00 (480 minutes, PRESENT) and 09:00-12:00 (180 minutes, ABSENT)
DbPunches ==
    {[in_time |-> HMS(9, 0, 0), out_time |-> HMS(17, 0, 0), total_time |-> NoTime],
     [in_time |-> HMS(9, 0, 0), out_time |-> HMS(12, 0, 0), total_time |-> NoTime]}

\* the records AttendanceParser.parse_file can return (attendance_parser.py:
\* 184-195), without the fields no summary depends on
DbRecords ==
    {[code |-> k[1], date |-> k[2], in_time |-> p.in_time,
      out_time |-> p.out_time, total_time |-> p.total_time] :
        k \in DbKeys, p \in DbPunches}

Init ==
    /\ app_settings = NoSettings
    /\ employees = <<>>
    /\ logs = <<>>
    /\ daily = <<>>
    /\ weekly = <<>>
    /\ pc = "input"
    /\ IdleDay /\ IdlePair /\ IdleWeek /\ IdleClassify /\ IdlePartition
    /\ IdleRequest

\* upload.py:70-196: what POST /upload/ does to the tables once the file
\* gave records
ProcessUpload(records) ==
    /\ records # <<>>
    /\ Len(logs) + Len(records) <= MaxLogs
    /\ employees' =
           StoreEmployees(employees,
               DistinctInOrder([i \in 1..Len(records) |-> records[i].code]))
    /\ logs' = StoreLogs(logs, records)
    /\ LET calculator == TimeCalculator(get_dynamic_settings(app_settings))
           daily_summaries == calculate_daily_summary(records)
           weeks == get_all_weeks([i \in 1..Len(records) |-> records[i].date])
       IN /\ daily' = StoreDaily(daily, daily_summaries, 1)
          /\ weekly' = StoreWeekly(weekly, calculator, daily_summaries, weeks, 1)
    /\ UNCHANGED <<app_settings, pc, dayVars, pairVars, weekVars, classifyVars,
                   partitionVars>>

\* upload.py:22-210: POST /upload/ of a file that parses to records; Spec
\* follows the tables and leaves the file and the response unobserved
Upload(records) ==
    /\ ProcessUpload(records)
    /\ UNCHANGED requestVars

\* routers/settings.py:86-101: what PUT /settings does to the tables
StoreSettings(settings_data) ==
    /\ app_settings' = update_settings(settings_data)
    /\ UNCHANGED <<employees, logs, daily, weekly, pc, dayVars, pairVars,
                   weekVars, classifyVars, partitionVars>>

\* routers/settings.py:86-115: PUT /settings
UpdateSettings(settings_data) ==
    /\ StoreSettings(settings_data)
    /\ UNCHANGED requestVars

Next ==
    \/ \E n \in 1..(MaxLogs - Len(logs)) :
           \E records \in [1..n -> DbRecords] : Upload(records)
    \/ \E settings_data \in SettingsPayloads : UpdateSettings(settings_data)

Spec == Init /\ [][Next]_vars

----------------------------------------------------------------------------
(* SpecApi: every request that writes, with the file and the response *)

\* the most rows of attendance_logs in SpecApi, over all uploads
MaxApiLogs == 2

\* str.lower() on the extensions used here
Lower(ext) ==
    CASE ext = "CSV" -> "csv"
      [] ext = "XLSX" -> "xlsx"
      [] ext = "XLS" -> "xls"
      [] OTHER -> ext

\* every filename taken for an attendance file
AnyExtensionMutant(filename) == TRUE

\* upload.py:41: filename.lower().endswith(('.csv', '.xlsx', '.xls')), on a
\* filename kept as <<stem, extension>>
HasAttendanceExtension(filename) == Lower(filename[2]) \in {"csv", "xlsx", "xls"}

\* upload.py:38-68: the file is turned down before anything is stored: no
\* filename, another extension, parse_file raising, or no valid record
Rejected(filename, parses, records) ==
    \/ filename = NoStr
    \/ ~HasAttendanceExtension(filename)
    \/ ~parses
    \/ records = <<>>

\* no filename, notes.txt, may.csv, MAY.XLS
ApiFilenames == {NoStr, <<"notes", "txt">>, <<"may", "csv">>, <<"MAY", "XLS">>}

\* upload.py:22-210: POST /upload/ with its response; parses says whether
\* parse_file returns, records is what it returns; the file is kept as its
\* name, whether it parses and the number of its valid records
upload_attendance_file(filename, parses, records) ==
    /\ upload_file' = [filename |-> filename, parses |-> parses,
                       records |-> Len(records)]
    /\ IF Rejected(filename, parses, records)
       THEN /\ response' = [op |-> "upload", status |-> 400]
            /\ UNCHANGED <<app_settings, dbVars, pc, dayVars, pairVars,
                           weekVars, classifyVars, partitionVars>>
       ELSE /\ response' = [op |-> "upload", status |-> 200]
            /\ ProcessUpload(records)

\* routers/settings.py:86-115: PUT /settings with its response
put_settings(settings_data) ==
    /\ StoreSettings(settings_data)
    /\ response' = [op |-> "settings", status |-> 200]
    /\ UNCHANGED upload_file

\* employees.py:86-113: PUT /employees/{employee_code}; None is NoStr
update_employee(employee_code, name, department) ==
    LET found == {i \in 1..Len(employees) : employees[i].code = employee_code}
    IN /\ IF found = {}
          THEN /\ response' = [op |-> "employee", status |-> 404]
               /\ UNCHANGED employees
          ELSE LET i == CHOOSE i \in found : \A j \in found : i <= j
               IN /\ employees' =
                         [employees EXCEPT
                              ![i].name = IF name # NoStr THEN name ELSE @,
                              ![i].department =
                                  IF department # NoStr THEN department ELSE @]
                  /\ response' = [op |-> "employee", status |-> 200]
       /\ UNCHANGED <<app_settings, logs, daily, weekly, upload_file, pc,
                      dayVars, pairVars, weekVars, classifyVars, partitionVars>>

NextApi ==
    \/ \E filename \in ApiFilenames, parses \in BOOLEAN :
           \E n \in 0..(MaxApiLogs - Len(logs)) :
               \E records \in [1..n -> DbRecords] :
                   upload_attendance_file(filename, parses, records)
    \/ \E settings_data \in SettingsPayloads : put_settings(settings_data)
    \/ \E employee_code \in {"E1", "E9"} :
           \E name \in {NoStr, <<"Asha">>}, department \in {NoStr, <<"HR">>} :
               update_employee(employee_code, name, department)

SpecApi == Init /\ [][NextApi]_vars

----------------------------------------------------------------------------
(* SpecPair: the pairing functions on every pair of lists *)

\* the longest IN list and OUT list tried
MaxTimes == 2

\* 09:00:00, 09:00:30, 09:30:00, 12:00:00, 13:00:00
PairTimes == {HMS(9, 0, 0), HMS(9, 0, 30), HMS(9, 30, 0), HMS(12, 0, 0),
              HMS(13, 0, 0)}

InitPair ==
    /\ in_times \in SeqsUpTo(PairTimes, MaxTimes)
    /\ out_times \in SeqsUpTo(PairTimes, MaxTimes)
    /\ pair_total = 0
    /\ pairs = <<>>
    /\ pc = "input"
    /\ app_settings = NoSettings
    /\ IdleDb /\ IdleDay /\ IdleWeek /\ IdleClassify /\ IdlePartition
    /\ IdleRequest

\* _calculate_day_summary lines 83 and 98: both pairing functions run on the
\* same two lists
RunPairing ==
    /\ pc = "input"
    /\ pair_total' = calculate_from_pairs(in_times, out_times)
    /\ pairs' = create_pairs(in_times, out_times)
    /\ pc' = "done"
    /\ UNCHANGED <<in_times, out_times, app_settings, dbVars, dayVars,
                   weekVars, classifyVars, partitionVars,
                   requestVars>>

NextPair == RunPairing

SpecPair == InitPair /\ [][NextPair]_vars

----------------------------------------------------------------------------
(* SpecDay: the Daily Aggregator on every day's record list *)

\* the longest list of punch records of one day tried
MaxDayRecords == 2

DayIns == {NoTime, HMS(9, 0, 0), HMS(9, 30, 0)}
DayOuts == {NoTime, HMS(9, 0, 30), HMS(12, 0, 0), HMS(13, 0, 0)}
\* device totals 05:00:00 and 07:30:40
DayTotals == {NoTime, HMS(5, 0, 0), HMS(7, 30, 40)}

DayPunches == [in_time : DayIns, out_time : DayOuts, total_time : DayTotals]

InitDay ==
    /\ day_records \in SeqsUpTo(DayPunches, MaxDayRecords)
    /\ day_summary = NoDaySummary
    /\ app_settings \in SettingsStates
    /\ pc = "input"
    /\ IdleDb /\ IdlePair /\ IdleWeek /\ IdleClassify /\ IdlePartition
    /\ IdleRequest

\* calculate_daily_summary line 49: one (employee, date) group is aggregated
RunDay ==
    /\ pc = "input"
    /\ day_summary' = calculate_day_summary(day_records)
    /\ pc' = "done"
    /\ UNCHANGED <<day_records, app_settings, dbVars, pairVars, weekVars,
                   classifyVars, partitionVars,
                   requestVars>>

NextDay == RunDay

SpecDay == InitDay /\ [][NextDay]_vars

----------------------------------------------------------------------------
(* SpecWeek: the Weekly Aggregator on every set of daily summaries *)

\* the most daily summaries given to one weekly aggregation
MaxWeekEntries == 2

\* Monday 2024-05-13
Monday1 == toordinal(2024, 5, 13)
WeekCodes == <<"E1", "E2">>
\* Monday 2024-05-13, Sunday 2024-05-19, Monday 2024-05-20
WeekDates == <<Monday1, Monday1 + 6, Monday1 + 7>>

\* daily summaries as calculate_weekly_summary reads them: total and status
WeekSummaryChoices ==
    {[total_office_minutes |-> 480, status |-> "PRESENT"],
     [total_office_minutes |-> 325, status |-> "PRESENT"],
     [total_office_minutes |-> 350, status |-> "PRESENT"],
     [total_office_minutes |-> 200, status |-> "PARTIAL"],
     [total_office_minutes |-> 100, status |-> "ABSENT"]}

WeekCells == (1..Len(WeekCodes)) \X (1..Len(WeekDates))

\* the dict employee -> date -> summary holding the summaries chosen by f, a
\* function from some cells to summaries
DatesOfCode(f, c) ==
    LET ds == SelectSeq([j \in 1..Len(WeekDates) |-> j],
                        LAMBDA j : <<c, j>> \in DOMAIN f)
    IN [k \in 1..Len(ds) |->
            [date |-> WeekDates[ds[k]], summary |-> f[<<c, ds[k]>>]]]

WeekInputOf(f) ==
    LET cs == SelectSeq([c \in 1..Len(WeekCodes) |-> c],
                        LAMBDA c : \E j \in 1..Len(WeekDates) : <<c, j>> \in DOMAIN f)
    IN [k \in 1..Len(cs) |->
            [code |-> WeekCodes[cs[k]], dates |-> DatesOfCode(f, cs[k])]]

WeekInputs ==
    {WeekInputOf(f) :
        f \in UNION {[cells -> WeekSummaryChoices] :
                        cells \in {x \in SUBSET WeekCells :
                                      Cardinality(x) <= MaxWeekEntries}}}

InitWeek ==
    /\ week_input \in WeekInputs
    /\ week_window \in {get_week_bounds(Monday1 + 2), get_week_bounds(Monday1 + 7)}
    /\ weekly_out = <<>>
    /\ app_settings \in SettingsStates
    /\ pc = "input"
    /\ IdleDb /\ IdleDay /\ IdlePair /\ IdleClassify /\ IdlePartition
    /\ IdleRequest

\* upload.py:107-114 and 162-164: the calculator is built from the dynamic
\* settings and one window is aggregated
RunWeek ==
    /\ pc = "input"
    /\ weekly_out' =
           calculate_weekly_summary(
               TimeCalculator(get_dynamic_settings(app_settings)),
               week_input, week_window[1], week_window[2], <<>>)
    /\ pc' = "done"
    /\ UNCHANGED <<week_input, week_window, app_settings, dbVars, dayVars,
                   pairVars, classifyVars, partitionVars,
                   requestVars>>

NextWeek == RunWeek

SpecWeek == InitWeek /\ [][NextWeek]_vars

----------------------------------------------------------------------------
(* SpecClassify: the three places that turn a percentage into a colour *)

\* the totals tried are 0, 24, ..., 24 * MaxTotalSteps minutes
MaxTotalSteps == 25
ClassifyTotals == {24 * k : k \in 0..MaxTotalSteps}

InitClassify ==
    /\ app_settings \in SettingsStates
    /\ \E total \in ClassifyTotals :
           percentage =
               daily_compliance(
                   total,
                   get_dynamic_settings(app_settings).expected_hours_per_day * 60)
    /\ colors = [calculator |-> "RED", config |-> "RED", report |-> "RED"]
    /\ pc = "input"
    /\ IdleDb /\ IdleDay /\ IdlePair /\ IdleWeek /\ IdlePartition
    /\ IdleRequest

\* the same percentage given to TimeCalculator._get_status_color, to
\* config.get_status_color and to the per-day colour of the individual report
RunClassify ==
    /\ pc = "input"
    /\ colors' = [calculator |-> TimeCalculator_get_status_color(percentage),
                  config |-> config_get_status_color(percentage),
                  report |-> daily_status_color(percentage)]
    /\ pc' = "done"
    /\ UNCHANGED <<percentage, app_settings, dbVars, dayVars, pairVars,
                   weekVars, partitionVars, requestVars>>

NextClassify == RunClassify

SpecClassify == InitClassify /\ [][NextClassify]_vars

----------------------------------------------------------------------------
(* SpecPartition: the Week Partitioner on every list of dates *)

\* the longest list of dates tried
MaxDates == 3

\* Thursday 2024-02-29, Monday 2024-05-13, Wednesday 2024-05-15, Sunday
\* 2024-05-19, Monday 2024-05-20, Tuesday 2024-12-31, Wednesday 2025-01-01
PartitionDates ==
    {toordinal(2024, 2, 29), toordinal(2024, 5, 13), toordinal(2024, 5, 15),
     toordinal(2024, 5, 19), toordinal(2024, 5, 20), toordinal(2024, 12, 31),
     toordinal(2025, 1, 1)}

InitPartition ==
    /\ all_dates \in SeqsUpTo(PartitionDates, MaxDates)
    /\ date_bounds = <<>>
    /\ all_weeks = <<>>
    /\ pc = "input"
    /\ app_settings = NoSettings
    /\ IdleDb /\ IdleDay /\ IdlePair /\ IdleWeek /\ IdleClassify
    /\ IdleRequest

\* upload.py:153-154: get_all_weeks on the dates of a file; date_bounds keeps
\* what get_week_bounds returned for each date (time_calculator.py:261)
RunPartition ==
    /\ pc = "input"
    /\ date_bounds' = [i \in 1..Len(all_dates) |-> get_week_bounds(all_dates[i])]
    /\ all_weeks' = get_all_weeks(all_dates)
    /\ pc' = "done"
    /\ UNCHANGED <<all_dates, app_settings, dbVars, dayVars, pairVars,
                   weekVars, classifyVars, requestVars>>

NextPartition == RunPartition

SpecPartition == InitPartition /\ [][NextPartition]_vars

----------------------------------------------------------------------------
(* Claims about the Daily Aggregator (SpecDay) and the pairing (SpecPair) *)

\* 'HH:MM' read back as minutes since midnight
MinutesOfHM(hm) == hm[1] * 60 + hm[2]

\* the minutes the reported pairs add up to: out - in over the matched ones
RECURSIVE ReportedPairMinutes(_)
ReportedPairMinutes(ps) ==
    IF ps = <<>> THEN 0
    ELSE (IF Head(ps).out = NoStr THEN 0
          ELSE MinutesOfHM(Head(ps).out) - MinutesOfHM(Head(ps).in))
         + ReportedPairMinutes(Tail(ps))

Ascending(s) == \A i \in 1..(Len(s) - 1) : s[i] <= s[i + 1]
AscendingOrderOf(s) == CHOOSE t \in PermutationsOf(s) : Ascending(t)

\* f binds the k-th IN of a (ascending) to the f[k]-th OUT of b (ascending),
\* 0 for none, by the earliest-available rule
IsGreedyBinding(f, a, b) ==
    \A k \in 1..Len(a) :
        LET free == {j \in 1..Len(b) :
                        b[j] > a[k] /\ \A k2 \in 1..(k - 1) : f[k2] # j}
        IN IF free = {} THEN f[k] = 0
           ELSE f[k] \in free /\ \A j \in free : f[k] <= j

GreedyBinding(a, b) ==
    CHOOSE f \in [1..Len(a) -> 0..Len(b)] : IsGreedyBinding(f, a, b)

WholeMinutes(t) == t \div 60

\* C4: for every configured minimum-hours-for-present the Daily Aggregator
\* gives PRESENT exactly when total office minutes reach that minimum, and
\* ABSENT otherwise (never PARTIAL).
C4_StatusFollowsConfiguredMinimum ==
    pc = "done" =>
        LET minimum ==
                get_dynamic_settings(app_settings).min_hours_for_present * 60
        IN day_summary.status =
               IF day_summary.total_office_minutes >= minimum
               THEN "PRESENT" ELSE "ABSENT"

FirstTotalIndex(records) ==
    CHOOSE i \in 1..Len(records) :
        /\ records[i].total_time # NoTime
        /\ \A j \in 1..(i - 1) : records[j].total_time = NoTime

\* C7: when some record of the day carries a device total, the day's total
\* office minutes is the first such total (hours * 60 + minutes), whatever
\* the IN/OUT times and the later totals are.
C7_DeviceTotalWins ==
    (pc = "done" /\ \E i \in 1..Len(day_records) :
                        day_records[i].total_time # NoTime) =>
        LET first == day_records[FirstTotalIndex(day_records)].total_time
        IN day_summary.total_office_minutes
               = (first \div 3600) * 60 + (first % 3600) \div 60

\* a day whose pairing gives 390, whose first device total is 05:00:00 and
\* whose second is 07:30:40, aggregated
C7_Witness ==
    /\ pc = "done"
    /\ day_records =
           <<[in_time |-> HMS(9, 0, 0), out_time |-> HMS(12, 0, 0),
              total_time |-> HMS(5, 0, 0)],
             [in_time |-> HMS(9, 30, 0), out_time |-> HMS(13, 0, 0),
              total_time |-> HMS(7, 30, 40)]>>
    /\ day_summary.total_office_minutes = 300

\* C8: each IN, in ascending order, is bound to the smallest OUT strictly
\* greater than it that no earlier IN took, and left unmatched when there is
\* none: the reported pairs and the total are those of that binding.
C8_GreedyEarliestAvailable ==
    pc = "done" =>
        LET a == AscendingOrderOf(in_times)
            b == AscendingOrderOf(out_times)
            f == GreedyBinding(a, b)
            matched == {k \in 1..Len(a) : f[k] # 0}
            minutes(k) == WholeMinutes(b[f[k]]) - WholeMinutes(a[k])
            durations == [k \in 1..Len(a) |->
                              IF k \in matched THEN minutes(k) ELSE 0]
        IN /\ Len(pairs) = Len(a)
           /\ \A k \in 1..Len(a) :
                  /\ MinutesOfHM(pairs[k].in) = WholeMinutes(a[k])
                  /\ k \notin matched => pairs[k].out = NoStr
                  /\ k \in matched =>
                         /\ pairs[k].out # NoStr
                         /\ MinutesOfHM(pairs[k].out) = WholeMinutes(b[f[k]])
           /\ pair_total = SeqSum(durations)

\* C9: when no device total applies, the day's total office minutes is the
\* sum of out - in, in whole minutes, over the matched pairs the day reports.
C9_TotalIsSumOfReportedPairs ==
    (pc = "done" /\ \A i \in 1..Len(day_records) :
                        day_records[i].total_time = NoTime) =>
        day_summary.total_office_minutes
            = ReportedPairMinutes(day_summary.in_out_pairs)

\* C10: the total and the pair sequence are the same for every reordering of
\* the IN list and of the OUT list.
C10_PairingOrderIndependent ==
    pc = "done" =>
        \A pi \in PermutationsOf(in_times), po \in PermutationsOf(out_times) :
            /\ calculate_from_pairs(pi, po) = pair_total
            /\ create_pairs(pi, po) = pairs

\* both lists given in descending order and paired
C10_Witness ==
    /\ pc = "done"
    /\ in_times = <<HMS(9, 30, 0), HMS(9, 0, 0)>>
    /\ out_times = <<HMS(13, 0, 0), HMS(12, 0, 0)>>
    /\ pair_total = 390
    /\ Len(pairs) = 2 /\ pairs[1].out = <<12, 0>> /\ pairs[2].out = <<13, 0>>

\* C11: the whole DailySummary (total office minutes, status, first-in,
\* last-out, pairs) is the same for every ordering of the day's punch
\* records, also when several of them carry a device total.
C11_DaySummaryOrderIndependent ==
    pc = "done" =>
        \A p \in PermutationsOf(day_records) :
            calculate_day_summary(p) = day_summary

\* C22: a candidate pair whose duration in minutes is not positive adds
\* nothing to the total and is not kept as a matched pair: the total is
\* never negative and every matched pair reported has out - in, in minutes,
\* strictly positive.
C22_NoPairWithoutPositiveDuration ==
    pc = "done" =>
        /\ pair_total >= 0
        /\ \A k \in 1..Len(pairs) :
               pairs[k].out # NoStr =>
                   /\ MinutesOfHM(pairs[k].out) - MinutesOfHM(pairs[k].in) > 0
                   /\ pairs[k].duration[1] * 60 + pairs[k].duration[2] > 0

\* the IN times and the OUT times of the day's records, as sets
InSetOf(records) ==
    {records[i].in_time : i \in 1..Len(records)} \ {NoTime}
OutSetOf(records) ==
    {records[i].out_time : i \in 1..Len(records)} \ {NoTime}

\* C23: first-in is the least of all IN times of the day and last-out the
\* greatest of all OUT times, absent when there is none, whether or not the
\* times are matched and whether or not a device total applies.
C23_FirstInLastOut ==
    pc = "done" =>
        /\ IF InSetOf(day_records) = {} THEN day_summary.first_in = NoTime
           ELSE /\ day_summary.first_in \in InSetOf(day_records)
                /\ \A t \in InSetOf(day_records) : day_summary.first_in <= t
        /\ IF OutSetOf(day_records) = {} THEN day_summary.last_out = NoTime
           ELSE /\ day_summary.last_out \in OutSetOf(day_records)
                /\ \A t \in OutSetOf(day_records) : day_summary.last_out >= t

\* INs 09:30 then 09:00, the only OUT 09:00:30 before the later IN, and a
\* device total: first-in 09:00, last-out 09:00:30
C23_Witness ==
    /\ pc = "done"
    /\ day_records =
           <<[in_time |-> HMS(9, 30, 0), out_time |-> HMS(9, 0, 30),
              total_time |-> HMS(5, 0, 0)],
             [in_time |-> HMS(9, 0, 0), out_time |-> NoTime,
              total_time |-> NoTime]>>
    /\ day_summary.first_in = HMS(9, 0, 0)
    /\ day_summary.last_out = HMS(9, 0, 30)
    /\ day_summary.total_office_minutes = 300

\* the IN times and the OUT times of the day's records, ascending
AscendingIns(records) ==
    AscendingOrderOf(
        LET withIn == SelectSeq(records, LAMBDA r : r.in_time # NoTime)
        IN [i \in 1..Len(withIn) |-> withIn[i].in_time])
AscendingOuts(records) ==
    AscendingOrderOf(
        LET withOut == SelectSeq(records, LAMBDA r : r.out_time # NoTime)
        IN [i \in 1..Len(withOut) |-> withOut[i].out_time])

\* f sends each IN of a to a different OUT of b after it, or to 0 (none)
IsBinding(f, a, b) ==
    /\ \A k \in 1..Len(a) : f[k] # 0 => b[f[k]] > a[k]
    /\ \A k1, k2 \in 1..Len(a) : (f[k1] # 0 /\ f[k1] = f[k2]) => k1 = k2

\* C24: the day's pair sequence has one pair per IN time in ascending IN
\* order; some binding of INs to OUTs, each OUT occurrence taken at most
\* once and each bound OUT strictly after its IN, gives the reported outs;
\* an IN left without OUT has no out and no duration; and the sequence is
\* there also when a device total gives the day's minutes.
C24_PairSequenceWellFormed ==
    pc = "done" =>
        LET a == AscendingIns(day_records)
            b == AscendingOuts(day_records)
            ps == day_summary.in_out_pairs
        IN /\ Len(ps) = Len(a)
           /\ \A k \in 1..Len(a) : ps[k].in = <<Hour(a[k]), Minute(a[k])>>
           /\ \E f \in [1..Len(a) -> 0..Len(b)] :
                  /\ IsBinding(f, a, b)
                  /\ \A k \in 1..Len(a) :
                         IF f[k] = 0
                         THEN /\ ps[k].out = NoStr
                              /\ ps[k].duration = NoStr
                              /\ \A j \in 1..Len(b) :
                                     b[j] > a[k] =>
                                         \E k2 \in 1..Len(a) : f[k2] = j
                         ELSE /\ ps[k].out = <<Hour(b[f[k]]), Minute(b[f[k]])>>
                              /\ ps[k].duration # NoStr

\* a day with a device total, IN 09:00 bound to OUT 12:00, and IN 09:30 left
\* without OUT
C24_Witness ==
    /\ pc = "done"
    /\ day_records =
           <<[in_time |-> HMS(9, 30, 0), out_time |-> NoTime,
              total_time |-> HMS(5, 0, 0)],
             [in_time |-> HMS(9, 0, 0), out_time |-> HMS(12, 0, 0),
              total_time |-> NoTime]>>
    /\ day_summary.total_office_minutes = 300
    /\ day_summary.in_out_pairs =
           <<[in |-> <<9, 0>>, out |-> <<12, 0>>, duration |-> <<3, 0>>],
             [in |-> <<9, 30>>, out |-> NoStr, duration |-> NoStr]>>

\* the most INs any one-to-one binding of INs to strictly later OUTs binds
MaxBound(a, b) ==
    LET sizes == {Cardinality({k \in 1..Len(a) : f[k] # 0}) :
                     f \in {g \in [1..Len(a) -> 0..Len(b)] : IsBinding(g, a, b)}}
    IN CHOOSE n \in sizes : \A m \in sizes : m <= n

\* C28: the number of matched pairs the greedy pairing reports is the most
\* any one-to-one assignment of IN times to strictly later OUT times reaches.
C28_GreedyMatchesMost ==
    pc = "done" =>
        Cardinality({k \in 1..Len(pairs) : pairs[k].out # NoStr})
            = MaxBound(in_times, out_times)

\* INs 09:00 and 09:30, OUTs 09:00:30 and 12:00: both INs are matched, which
\* binding 09:00 to 12:00 would not allow
C28_Witness ==
    /\ pc = "done"
    /\ in_times = <<HMS(9, 0, 0), HMS(9, 30, 0)>>
    /\ out_times = <<HMS(12, 0, 0), HMS(9, 0, 30)>>
    /\ Len(pairs) = 2
    /\ pairs[1].out = <<9, 0>>
    /\ pairs[2].out = <<12, 0>>

----------------------------------------------------------------------------
(* Claims about the status colours (SpecWeek, SpecClassify) *)

\* the Compliance Classifier on the fraction p with thresholds red and amber
Classifier(p, red, amber) ==
    IF p.num < red * p.den THEN "RED"
    ELSE IF p.num <= amber * p.den THEN "AMBER"
    ELSE "GREEN"

\* the compliance of a weekly entry, from its total and expected minutes
ComplianceOf(e) ==
    IF e.expected_minutes > 0
    THEN Percent(e.total_office_minutes * 100, e.expected_minutes)
    ELSE Percent(0, 1)

\* C5: the weekly status is the Compliance Classifier on the compliance
\* percentage with the configured red and amber thresholds.
C5_WeeklyStatusFollowsConfiguredThresholds ==
    pc = "done" =>
        LET cfg == get_dynamic_settings(app_settings)
        IN \A i \in 1..Len(weekly_out) :
               weekly_out[i].status =
                   Classifier(ComplianceOf(weekly_out[i]),
                              cfg.threshold_red, cfg.threshold_amber)

\* C6: for every percentage TimeCalculator._get_status_color,
\* config.get_status_color and the per-day colour of the individual report
\* give the same status.
C6_AllClassifiersAgree ==
    pc = "done" =>
        /\ colors.calculator = colors.config
        /\ colors.config = colors.report

----------------------------------------------------------------------------
(* Claims about the Weekly Aggregator (SpecWeek) *)

\* C16: for every employee, calculate_weekly_summary counts exactly the daily
\* summaries dated within [week_start, week_end], both ends included: total
\* minutes is the sum of their totals whatever their status, the office-day
\* count is the number of them that are PRESENT or PARTIAL, and summaries
\* outside the window add nothing.
C16_WindowIsInclusive ==
    pc = "done" =>
        /\ Len(weekly_out) = Len(week_input)
        /\ \A i \in 1..Len(week_input) :
               LET ds == week_input[i].dates
                   within == {k \in 1..Len(ds) :
                                 /\ week_window[1] <= ds[k].date
                                 /\ ds[k].date <= week_window[2]}
               IN /\ weekly_out[i].employee_code = week_input[i].code
                  /\ weekly_out[i].total_office_minutes =
                         SeqSum([k \in 1..Len(ds) |->
                                    IF k \in within
                                    THEN ds[k].summary.total_office_minutes
                                    ELSE 0])
                  /\ weekly_out[i].wfo_days =
                         Cardinality({k \in within :
                             ds[k].summary.status \in {"PRESENT", "PARTIAL"}})

\* E1 with 200 PARTIAL on Sunday 2024-05-19 and 480 PRESENT on Monday
\* 2024-05-20, aggregated over 2024-05-13..19: the Sunday counts, the Monday
\* does not
C16_Witness ==
    /\ pc = "done"
    /\ week_window = <<Monday1, Monday1 + 6>>
    /\ week_input =
           <<[code |-> "E1",
              dates |-> <<[date |-> Monday1 + 6,
                           summary |-> [total_office_minutes |-> 200,
                                        status |-> "PARTIAL"]],
                          [date |-> Monday1 + 7,
                           summary |-> [total_office_minutes |-> 480,
                                        status |-> "PRESENT"]]>>]>>
    /\ weekly_out[1].total_office_minutes = 200
    /\ weekly_out[1].wfo_days = 1

\* C17: expected minutes is office-day count x expected_hours_per_day x 60,
\* whatever the policy's office days per week and the per-employee required
\* days are; a week with a single attended day whose total is
\* expected_hours_per_day x 60 has compliance exactly 100.
C17_ExpectedFollowsAttendedDays ==
    pc = "done" =>
        LET hours == get_dynamic_settings(app_settings).expected_hours_per_day
        IN \A i \in 1..Len(weekly_out) :
               /\ weekly_out[i].expected_minutes
                      = weekly_out[i].wfo_days * hours * 60
               /\ \A days_per_week \in 0..7 :
                      \A requirements \in {<<>>, [c \in {"E1", "E2"} |-> 5]} :
                          calculate_weekly_summary(
                              [expected_hours_per_day |-> hours,
                               wfo_days_per_week |-> days_per_week],
                              week_input, week_window[1], week_window[2],
                              requirements)[i].expected_minutes
                          = weekly_out[i].expected_minutes
               /\ (/\ weekly_out[i].wfo_days = 1
                   /\ weekly_out[i].total_office_minutes = hours * 60)
                      => weekly_out[i].compliance_percentage = 10000

\* office days per week 2, 8 hours a day, and E1 with the one day of 480
\* minutes in the window: expected 480, compliance 100.00
C17_Witness ==
    /\ pc = "done"
    /\ get_dynamic_settings(app_settings).wfo_days_per_week = 2
    /\ get_dynamic_settings(app_settings).expected_hours_per_day = 8
    /\ Len(weekly_out) = 1
    /\ weekly_out[1].wfo_days = 1
    /\ weekly_out[1].total_office_minutes = 480
    /\ weekly_out[1].expected_minutes = 480
    /\ weekly_out[1].compliance_percentage = 10000

\* C18: the compliance percentage (in hundredths) is total / expected x 100
\* rounded to two decimals when expected minutes > 0, and 0 when expected
\* minutes is 0; it is not capped, so it is above 100 when total > expected.
C18_ComplianceIsRatioUncapped ==
    pc = "done" =>
        \A i \in 1..Len(weekly_out) :
            LET total == weekly_out[i].total_office_minutes
                expected == weekly_out[i].expected_minutes
                c == weekly_out[i].compliance_percentage
                error == c * expected - total * 10000
            IN IF expected > 0
               THEN /\ 2 * error <= expected
                    /\ 2 * (0 - error) <= expected
                    /\ total > expected => c > 10000
               ELSE c = 0

\* one attended day of 480 minutes and an ABSENT day of 100 minutes in the
\* window, 8 hours a day: 580 of 480 minutes, 120.83
C18_Witness ==
    /\ pc = "done"
    /\ Len(weekly_out) = 1
    /\ weekly_out[1].total_office_minutes = 580
    /\ weekly_out[1].expected_minutes = 480
    /\ weekly_out[1].compliance_percentage = 12083

\* C27: calculate_weekly_summary returns exactly one entry per employee of
\* its input, also for an employee with no daily summary inside the window,
\* whose entry has total minutes 0, office-day count 0, expected minutes 0,
\* compliance 0 and status RED.
C27_OneEntryPerEmployee ==
    pc = "done" =>
        /\ {weekly_out[i].employee_code : i \in 1..Len(weekly_out)}
               = {week_input[i].code : i \in 1..Len(week_input)}
        /\ \A i, j \in 1..Len(weekly_out) :
               weekly_out[i].employee_code = weekly_out[j].employee_code => i = j
        /\ \A i \in 1..Len(week_input) :
               (\A k \in 1..Len(week_input[i].dates) :
                    \/ week_input[i].dates[k].date < week_window[1]
                    \/ week_input[i].dates[k].date > week_window[2])
               => \E j \in 1..Len(weekly_out) :
                      /\ weekly_out[j].employee_code = week_input[i].code
                      /\ weekly_out[j].total_office_minutes = 0
                      /\ weekly_out[j].wfo_days = 0
                      /\ weekly_out[j].expected_minutes = 0
                      /\ weekly_out[j].compliance_percentage = 0
                      /\ weekly_out[j].status = "RED"

\* E1 with a day on 2024-05-13 and E2 only on 2024-05-20, aggregated over
\* 2024-05-13..19: E2 has an entry, all zero and RED
C27_Witness ==
    /\ pc = "done"
    /\ week_window = <<Monday1, Monday1 + 6>>
    /\ week_input =
           <<[code |-> "E1",
              dates |-> <<[date |-> Monday1,
                           summary |-> [total_office_minutes |-> 480,
                                        status |-> "PRESENT"]]>>],
             [code |-> "E2",
              dates |-> <<[date |-> Monday1 + 7,
                           summary |-> [total_office_minutes |-> 480,
                                        status |-> "PRESENT"]]>>]>>
    /\ Len(weekly_out) = 2
    /\ weekly_out[2].employee_code = "E2"
    /\ weekly_out[2].total_office_minutes = 0
    /\ weekly_out[2].status = "RED"

----------------------------------------------------------------------------
(* Claims about the Week Partitioner (SpecPartition) *)

\* d is a whole number of weeks from Monday 2024-05-13
IsMonday(d) == (d - toordinal(2024, 5, 13)) % 7 = 0

\* C19: for every date d, get_week_bounds(d) is (week_start, week_end) with
\* week_start a Monday, week_start <= d <= week_start + 6 and week_end =
\* week_start + 6; 2024-05-15 gives (2024-05-13, 2024-05-19) and a Monday is
\* its own week_start.
C19_WeekBoundsMondayOnOrBefore ==
    pc = "done" =>
        \A i \in 1..Len(all_dates) :
            LET d == all_dates[i]
                week_start == date_bounds[i][1]
                week_end == date_bounds[i][2]
            IN /\ IsMonday(week_start)
               /\ week_start <= d /\ d <= week_start + 6
               /\ week_end = week_start + 6
               /\ d = toordinal(2024, 5, 15) =>
                      /\ week_start = toordinal(2024, 5, 13)
                      /\ week_end = toordinal(2024, 5, 19)
               /\ IsMonday(d) => week_start = d

\* the bounds of Wednesday 2024-05-15, of Monday 2024-05-20 and of Tuesday
\* 2024-12-31, whose week ends in 2025
C19_Witness ==
    /\ pc = "done"
    /\ all_dates = <<toordinal(2024, 5, 15), toordinal(2024, 5, 20),
                     toordinal(2024, 12, 31)>>
    /\ date_bounds =
           <<<<toordinal(2024, 5, 13), toordinal(2024, 5, 19)>>,
             <<toordinal(2024, 5, 20), toordinal(2024, 5, 26)>>,
             <<toordinal(2024, 12, 30), toordinal(2025, 1, 5)>>>>

\* C20: get_all_weeks returns every window that holds an input date exactly
\* once and no other window, in strictly ascending week_start order, and
\* returns the same for every permutation of the dates and when dates are
\* repeated.
C20_AllWeeksSortedDistinctOrderFree ==
    pc = "done" =>
        /\ \A i \in 1..(Len(all_weeks) - 1) :
               all_weeks[i][1] < all_weeks[i + 1][1]
        /\ \A i \in 1..Len(all_weeks) :
               /\ IsMonday(all_weeks[i][1])
               /\ all_weeks[i][2] = all_weeks[i][1] + 6
               /\ \E k \in 1..Len(all_dates) :
                      /\ all_weeks[i][1] <= all_dates[k]
                      /\ all_dates[k] <= all_weeks[i][2]
        /\ \A k \in 1..Len(all_dates) :
               \E i \in 1..Len(all_weeks) :
                   /\ all_weeks[i][1] <= all_dates[k]
                   /\ all_dates[k] <= all_weeks[i][2]
        /\ \A p \in PermutationsOf(all_dates) : get_all_weeks(p) = all_weeks
        /\ get_all_weeks(all_dates \o all_dates) = all_weeks
        /\ \A k \in 1..Len(all_dates) :
               get_all_weeks(Append(all_dates, all_dates[k])) = all_weeks

\* Monday 2024-05-20, Monday 2024-05-13 and Wednesday 2024-05-15, in that
\* order: two windows, the earlier first
C20_Witness ==
    /\ pc = "done"
    /\ all_dates = <<toordinal(2024, 5, 20), toordinal(2024, 5, 13),
                     toordinal(2024, 5, 15)>>
    /\ all_weeks = <<<<toordinal(2024, 5, 13), toordinal(2024, 5, 19)>>,
                     <<toordinal(2024, 5, 20), toordinal(2024, 5, 26)>>>>

----------------------------------------------------------------------------
(* Claims about the stored summaries (Spec) *)

\* the fields of a daily_attendance row that the Daily Aggregator computes
SummaryOfRow(row) ==
    [total_office_minutes |-> row.total_office_minutes,
     status |-> row.status,
     first_in |-> row.first_in,
     last_out |-> row.last_out,
     in_out_pairs |-> row.in_out_pairs]

\* all attendance_logs rows of one employee and date, over all uploads
LogsOfKey(emp_code, rec_date) ==
    SelectSeq(logs, LAMBDA r : r.code = emp_code /\ r.date = rec_date)

\* C1: every stored DailySummary equals the Daily Aggregator applied to all
\* the punch records ingested so far for its (employee, date).
C1_DailyRowAggregatesAllLogs ==
    \A i \in 1..Len(daily) :
        SummaryOfRow(daily[i])
            = calculate_day_summary(
                  LogsOfKey(daily[i].employee_code, daily[i].date))

\* the stored daily rows of one employee inside a week
DailyRowsOfWeek(emp_code, week_start) ==
    SelectSeq(daily, LAMBDA row : /\ row.employee_code = emp_code
                                  /\ week_start <= row.date
                                  /\ row.date <= week_start + 6)

\* C2: every stored WeeklySummary holds the sum of the total office minutes
\* of the stored DailySummary rows of its employee and week, and counts
\* those of them that are PRESENT or PARTIAL.
C2_WeeklyRowSumsStoredDailyRows ==
    \A i \in 1..Len(weekly) :
        LET days == DailyRowsOfWeek(weekly[i].employee_code, weekly[i].week_start)
        IN /\ weekly[i].total_office_minutes
                  = SeqSum([k \in 1..Len(days) |-> days[k].total_office_minutes])
           /\ weekly[i].wfo_days
                  = Cardinality({k \in 1..Len(days) :
                                    days[k].status \in {"PRESENT", "PARTIAL"}})

\* the records a step appends to attendance_logs: those of its upload
NewRecords == SubSeq(logs', Len(logs) + 1, Len(logs'))

\* C3: a step leaves a stored DailySummary (e, d) as it is unless its upload
\* holds a record of e on d, and a stored WeeklySummary (e, w) as it is
\* unless its upload holds a record of e dated within [w, w + 6].
C3_OnlyUploadedKeysChange ==
    [][/\ \A i \in 1..Len(daily) :
              (\A k \in 1..Len(NewRecords) :
                   ~(/\ NewRecords[k].code = daily[i].employee_code
                     /\ NewRecords[k].date = daily[i].date))
              => (i <= Len(daily') /\ daily'[i] = daily[i])
       /\ \A i \in 1..Len(weekly) :
              (\A k \in 1..Len(NewRecords) :
                   ~(/\ NewRecords[k].code = weekly[i].employee_code
                     /\ weekly[i].week_start <= NewRecords[k].date
                     /\ NewRecords[k].date <= weekly[i].week_start + 6))
              => (i <= Len(weekly') /\ weekly'[i] = weekly[i])]_vars

\* the records named by the witnesses below
DbRecord(code, date, punch) ==
    [code |-> code, date |-> date, in_time |-> punch.in_time,
     out_time |-> punch.out_time, total_time |-> punch.total_time]
LongPunch ==
    [in_time |-> HMS(9, 0, 0), out_time |-> HMS(17, 0, 0), total_time |-> NoTime]
ShortPunch ==
    [in_time |-> HMS(9, 0, 0), out_time |-> HMS(12, 0, 0), total_time |-> NoTime]

\* C12: uploading the same punch set a second time leaves the DailySummary
\* rows and the WeeklySummary rows exactly as the first upload left them:
\* after every upload, storing the summaries of the same records again (under
\* the same settings) changes no row and adds none.
C12_ReuploadChangesNothing ==
    [][NewRecords # <<>> =>
          LET calculator == TimeCalculator(get_dynamic_settings(app_settings'))
              daily_summaries == calculate_daily_summary(NewRecords)
              weeks == get_all_weeks(
                           [i \in 1..Len(NewRecords) |-> NewRecords[i].date])
          IN /\ StoreDaily(daily', daily_summaries, 1) = daily'
             /\ StoreWeekly(weekly', calculator, daily_summaries, weeks, 1)
                    = weekly']_vars

\* the record (E1, 2024-05-13, 09:00-12:00) uploaded alone, twice: one daily
\* row and one weekly row of 180 minutes (one upload of both copies would
\* give 360)
C12_Witness ==
    /\ logs = <<DbRecord("E1", toordinal(2024, 5, 13), ShortPunch),
                DbRecord("E1", toordinal(2024, 5, 13), ShortPunch)>>
    /\ Len(daily) = 1 /\ daily[1].total_office_minutes = 180
    /\ Len(weekly) = 1 /\ weekly[1].total_office_minutes = 180

\* C13: there is at most one DailySummary row per (employee code, date) and
\* at most one WeeklySummary row per (employee code, week_start).
C13_OneRowPerKey ==
    /\ \A i, j \in 1..Len(daily) :
           (/\ daily[i].employee_code = daily[j].employee_code
            /\ daily[i].date = daily[j].date) => i = j
    /\ \A i, j \in 1..Len(weekly) :
           (/\ weekly[i].employee_code = weekly[j].employee_code
            /\ weekly[i].week_start = weekly[j].week_start) => i = j

\* (E1, 2024-05-13) uploaded with 09:00-17:00 and then, in a later upload,
\* with 09:00-12:00: still one daily row and one weekly row, holding the
\* later 180 minutes (one upload of both records would give 660)
C13_Witness ==
    /\ logs = <<DbRecord("E1", toordinal(2024, 5, 13), LongPunch),
                DbRecord("E1", toordinal(2024, 5, 13), ShortPunch)>>
    /\ Len(daily) = 1 /\ daily[1].total_office_minutes = 180
    /\ Len(weekly) = 1 /\ weekly[1].total_office_minutes = 180

\* C14: every DailySummary row has the (employee, date) of some ingested
\* punch record; a date without punches has no row, not an ABSENT one.
C14_DailyRowHasPunch ==
    \A i \in 1..Len(daily) :
        \E k \in 1..Len(logs) :
            /\ logs[k].code = daily[i].employee_code
            /\ logs[k].date = daily[i].date

\* one upload with E1 on 2024-05-13 and E2 on 2024-05-20: two daily rows,
\* none for E1 on 2024-05-20 or E2 on 2024-05-13
C14_Witness ==
    /\ logs = <<DbRecord("E1", toordinal(2024, 5, 13), ShortPunch),
                DbRecord("E2", toordinal(2024, 5, 20), ShortPunch)>>
    /\ Len(daily) = 2
    /\ daily[1].employee_code = "E1" /\ daily[1].date = toordinal(2024, 5, 13)
    /\ daily[2].employee_code = "E2" /\ daily[2].date = toordinal(2024, 5, 20)
    /\ Len(weekly) = 4

\* C15: every stored WeeklySummary has a week_start that is a Monday (a
\* whole number of weeks from Monday 2024-05-13) and a week_end six days
\* after it.
C15_StoredWeekIsMondayToSunday ==
    \A i \in 1..Len(weekly) :
        /\ (weekly[i].week_start - toordinal(2024, 5, 13)) % 7 = 0
        /\ weekly[i].week_end = weekly[i].week_start + 6

\* a punch of Tuesday 2024-05-14 stored under the week 2024-05-13..19
C15_Witness ==
    /\ logs = <<DbRecord("E1", toordinal(2024, 5, 14), LongPunch)>>
    /\ Len(weekly) = 1
    /\ weekly[1].week_start = toordinal(2024, 5, 13)
    /\ weekly[1].week_end = toordinal(2024, 5, 19)

\* the policy values the specification calls required
RequiredKeys == {"expected_hours_per_day", "wfo_days_per_week",
                 "threshold_red", "threshold_amber"}

\* C21: when a required policy value (expected hours per day, office days
\* per week, red threshold, amber threshold) has no stored value, an upload
\* writes no DailySummary and no WeeklySummary: no default stands in for it.
C21_MissingPolicyWritesNothing ==
    [][(/\ NewRecords # <<>>
        /\ \E key \in RequiredKeys : app_settings[key] = NoValue)
       => (daily' = daily /\ weekly' = weekly)]_vars

\* C29: every weekly summary computed at 8 expected hours a day from the
\* Daily Aggregator's summaries has total minutes >= 360 x office-day count;
\* with an office day its compliance is at least 75 and its status AMBER or
\* GREEN, and its status is RED exactly when it has no office day.
C29_OfficeDaysCarrySixHours ==
    \A i \in 1..Len(weekly) :
        weekly[i].expected_minutes = weekly[i].wfo_days * 8 * 60 =>
            /\ weekly[i].total_office_minutes >= 360 * weekly[i].wfo_days
            /\ weekly[i].wfo_days >= 1 =>
                   /\ weekly[i].compliance_percentage >= 7500
                   /\ weekly[i].status \in {"AMBER", "GREEN"}
            /\ weekly[i].status = "RED" <=> weekly[i].wfo_days = 0

\* two punches 09:00-12:00 of one day in one upload: a PRESENT day of 360
\* minutes, a week at 75.00 and AMBER
C29_Witness ==
    /\ logs = <<DbRecord("E1", toordinal(2024, 5, 13), ShortPunch),
                DbRecord("E1", toordinal(2024, 5, 13), ShortPunch)>>
    /\ Len(weekly) = 1
    /\ weekly[1].wfo_days = 1
    /\ weekly[1].total_office_minutes = 360
    /\ weekly[1].expected_minutes = 480
    /\ weekly[1].compliance_percentage = 7500
    /\ weekly[1].status = "AMBER"

\* the records of a file that have the employee and date of r, and those that
\* have its employee
SameKey(records, r) ==
    SelectSeq(records, LAMBDA x : x.code = r.code /\ x.date = r.date)
SameCode(records, r) == SelectSeq(records, LAMBDA x : x.code = r.code)

\* C25: aggregation units are independent. After an upload, every record of
\* the file has the row of its (employee, date), and that row is the Daily
\* Aggregator on exactly the file's records of that key, whatever the
\* records of other keys are; and for every week of the file the row of its
\* (employee, week) is the weekly entry that the file's records of that
\* employee alone give, whatever the other employees' records are.
C25_UnitsIndependent ==
    [][\A k \in 1..Len(NewRecords) :
           LET own == calculate_day_summary(SameKey(NewRecords, NewRecords[k]))
               mine == calculate_daily_summary(SameCode(NewRecords, NewRecords[k]))
               calculator == TimeCalculator(get_dynamic_settings(app_settings))
           IN /\ \E i \in 1..Len(daily') :
                     /\ daily'[i].employee_code = NewRecords[k].code
                     /\ daily'[i].date = NewRecords[k].date
                     /\ SummaryOfRow(daily'[i]) = own
              /\ \A j \in 1..Len(NewRecords) :
                     LET week == get_week_bounds(NewRecords[j].date)
                         entry == calculate_weekly_summary(
                                      calculator, mine, week[1], week[2], <<>>)[1]
                     IN \E i \in 1..Len(weekly') : weekly'[i] = entry]_vars

\* one upload with E1 on 2024-05-13 (09:00-17:00), E1 on 2024-05-14
\* (09:00-12:00) and E2 on 2024-05-20 (09:00-12:00): each row holds its own
\* key's minutes
C25_Witness ==
    /\ logs = <<DbRecord("E1", toordinal(2024, 5, 13), LongPunch),
                DbRecord("E2", toordinal(2024, 5, 20), ShortPunch),
                DbRecord("E1", toordinal(2024, 5, 14), ShortPunch)>>
    /\ Len(daily) = 3
    /\ daily[1].total_office_minutes = 480
    /\ daily[2].total_office_minutes = 180 /\ daily[2].employee_code = "E1"
    /\ daily[3].total_office_minutes = 180 /\ daily[3].employee_code = "E2"
    /\ Len(weekly) = 4

----------------------------------------------------------------------------
(* Claims on the requests: SpecApi *)

\* C26: along every step of every operation the rows attendance_logs had
\* stay where they were and as they were, so the table only grows; an
\* accepted upload adds exactly one row per record of the file.
C26_LogsOnlyGrow ==
    [][/\ Len(logs') >= Len(logs)
       /\ SubSeq(logs', 1, Len(logs)) = logs
       /\ (response'.op = "upload" /\ response'.status = 200
              /\ <<upload_file', response', logs'>> # <<upload_file, response, logs>>)
             => Len(logs') = Len(logs) + upload_file'.records]_vars

\* two rows ingested, then the settings replaced and an employee renamed:
\* the rows are still there
C26_Witness ==
    /\ Len(logs) = MaxApiLogs
    /\ logs[1] # logs[2]
    /\ app_settings # NoSettings
    /\ response = [op |-> "employee", status |-> 200]
    /\ employees # <<>>
    /\ employees[1].name = <<"Asha">>

\* the file of the request is one the claim lists: no filename, an
\* extension other than csv, xlsx or xls (in either case), unparseable, or
\* without a valid record
TurnedDown(f) ==
    \/ f.filename = NoStr
    \/ f.filename[2] \notin {"csv", "xlsx", "xls", "CSV", "XLSX", "XLS"}
    \/ ~f.parses
    \/ f.records = 0

\* C30: an upload of a file that is turned down before processing answers
\* 400 and leaves employees, attendance_logs, daily_attendance and
\* weekly_summary as they were.
C30_RejectedUploadWritesNothing ==
    [][(response'.op = "upload" /\ TurnedDown(upload_file'))
          => /\ response'.status = 400
             /\ employees' = employees
             /\ logs' = logs
             /\ daily' = daily
             /\ weekly' = weekly]_vars

\* notes.txt turned down with 400 while the tables hold an earlier upload
C30_Witness ==
    /\ response = [op |-> "upload", status |-> 400]
    /\ upload_file.filename = <<"notes", "txt">>
    /\ upload_file.parses
    /\ upload_file.records > 0
    /\ logs # <<>>
    /\ employees # <<>>
    /\ daily # <<>>
    /\ weekly # <<>>

============================================================================
